---- MODULE Spec2Model ----
(***************************************************************************)
(* CLF (Coelanox Library File): the packer (src/src/packer.rs), the reader *)
(* (src/src/reader.rs) and the format constants (src/src/format.rs).       *)
(*                                                                         *)
(* A container is a sequence of bytes.  The packer writes one into a sink, *)
(* append_signature adds the trailing SIG0 block, and the reader parses    *)
(* whatever file it is given: one written by the packer, or any other file *)
(* (the crafted files below, laid out the way the reader parses).          *)
(***************************************************************************)
EXTENDS Integers, Sequences, FiniteSets, TLC

VARIABLES
    sink,       \* the bytes of the output sink / the file on disk
    pos,        \* the sink's stream position
    origin,     \* who wrote the data region: "none", "packed", "crafted"
    packIn,     \* the arguments of the pack_clf call (entries, options)
    packRes,    \* what pack_clf returned
    sigLen,     \* data_len given to append_signature, -1 before it is called
    hashed,     \* the bytes append_signature hashed
    flips,      \* number of bits flipped in the file after it was written
    pc,         \* "init", "packfail", "written", "open", "openfail"
    openRes,    \* the error ClfReader::open returned ("none": a reader), the
                \* expected_kind it was given, the I/O failure it met
    reader,     \* the ClfReader's fields
    cursor,     \* the position of the reader's BufReader<File>
    last        \* the last reader call and its result

vars == <<sink, pos, origin, packIn, packRes, sigLen, hashed, flips, pc,
          openRes, reader, cursor, last>>

----------------------------------------------------------------------------
(* Bounds of the model *)

MaxPackEntries == 2     \* entries in one pack_clf call
MaxEntries == 2         \* manifest entries of a crafted file
MaxIds == 2             \* op_ids in one build_code_section call
MaxFlips == 1           \* bits flipped in a signed file

----------------------------------------------------------------------------
(* format.rs *)

CLF_MAGIC == <<67, 76, 70, 49>>
CLF_VERSION == 2
SIG_MAGIC == <<83, 73, 71, 48>>
SIG_HASH_LEN == 32
SIG_BLOCK_LEN == 4 + SIG_HASH_LEN
ENTRY_SIZE == 4 + 4 + 4
U16_MAX == 65535

\* from_byte were the bytes of the two memory kinds exchanged.
from_byte_Swapped(b) ==
    CASE b = 1 -> "MemoryProtection"
      [] b = 2 -> "MemoryMovement"
      [] OTHER -> "Compute"

\* ClfKind::from_byte: invalid values default to Compute.
from_byte(b) ==
    CASE b = 1 -> "MemoryMovement"
      [] b = 2 -> "MemoryProtection"
      [] OTHER -> "Compute"

default_for_v1 == "Compute"

----------------------------------------------------------------------------
(* Bytes *)

Min(a, b) == IF a < b THEN a ELSE b

\* u16::to_le_bytes / u32::to_le_bytes
U16LE(n) == <<n % 256, (n \div 256) % 256>>
U32LE(n) == <<n % 256, (n \div 256) % 256, (n \div 65536) % 256,
              (n \div 16777216) % 256>>

\* u32::from_le_bytes
FromLE32(b) == b[1] + 256 * b[2] + 65536 * b[3] + 16777216 * b[4]

\* The n bytes of f that follow byte offset p (p counted from 0).
Bytes(f, p, n) == SubSeq(f, p + 1, p + n)

\* read_exact of n bytes at offset p succeeds.
CanRead(f, p, n) == p + n <= Len(f)

RECURSIVE Concat(_)
Concat(ss) == IF ss = <<>> THEN <<>> ELSE Head(ss) \o Concat(Tail(ss))

\* Write::write_all of b at position p of the sink s (a Cursor<Vec<u8>> or a
\* File): the bytes at p.. are overwritten and the sink grows as needed.
WriteAt(s, p, b) ==
    SubSeq(s, 1, p) \o b \o SubSeq(s, p + Len(b) + 1, Len(s))

\* String::from_utf8 accepts the bytes.
RECURSIVE ValidUtf8(_)
ValidUtf8(b) ==
    LET Cont(x) == x >= 128 /\ x <= 191
        n == Len(b)
    IN  IF n = 0 THEN TRUE
        ELSE IF b[1] < 128 THEN ValidUtf8(Tail(b))
        ELSE IF b[1] >= 194 /\ b[1] <= 223
             THEN n >= 2 /\ Cont(b[2]) /\ ValidUtf8(SubSeq(b, 3, n))
        ELSE IF b[1] >= 224 /\ b[1] <= 239
             THEN /\ n >= 3 /\ Cont(b[2]) /\ Cont(b[3])
                  /\ (b[1] = 224 => b[2] >= 160)
                  /\ (b[1] = 237 => b[2] <= 159)
                  /\ ValidUtf8(SubSeq(b, 4, n))
        ELSE IF b[1] >= 240 /\ b[1] <= 244
             THEN /\ n >= 4 /\ Cont(b[2]) /\ Cont(b[3]) /\ Cont(b[4])
                  /\ (b[1] = 240 => b[2] >= 144)
                  /\ (b[1] = 244 => b[2] <= 143)
                  /\ ValidUtf8(SubSeq(b, 5, n))
        ELSE FALSE

\* Sha256 (the sha2 crate): a digest of SIG_HASH_LEN bytes.  The crate is not
\* part of the repository; the model needs only that different inputs give
\* different digests.  The digest repeats three values modulo the prime 127:
\* the sum of the bytes (each plus one), their sum weighted by position, and
\* the length.  Inputs of fewer than 127 bytes that differ in one or two
\* places, by less than 127 in each, never share a digest.
RECURSIVE Sums(_, _, _)
Sums(data, lo, hi) ==
    IF hi - lo < 4
    THEN LET t(k) == IF k <= hi THEN data[k] + 1 ELSE 0
         IN  <<t(lo) + t(lo + 1) + t(lo + 2) + t(lo + 3),
               lo * t(lo) + (lo + 1) * t(lo + 1) + (lo + 2) * t(lo + 2)
                 + (lo + 3) * t(lo + 3)>>
    ELSE LET mid == (lo + hi) \div 2
             l == Sums(data, lo, mid)
             r == Sums(data, mid + 1, hi)
         IN  <<l[1] + r[1], l[2] + r[2]>>

Sha256(data) ==
    LET s == Sums(data, 1, Len(data))
        a == s[1] % 127
        b == s[2] % 127
        c == Len(data) % 127
    IN  [i \in 1..SIG_HASH_LEN |->
            IF i % 3 = 1 THEN a ELSE IF i % 3 = 2 THEN b ELSE c]

----------------------------------------------------------------------------
(* packer.rs *)

\* The index of the first entry whose op_id was already seen (0: none):
\* the loop over entries with HashSet::insert.
FirstDuplicate(entries) ==
    LET dup == {i \in 1..Len(entries) :
                  \E j \in 1..(i - 1) : entries[j][1] = entries[i][1]}
    IN  IF dup = {} THEN 0 ELSE CHOOSE i \in dup : \A j \in dup : i <= j

\* The running offset before entry i: the sum of the sizes of the blobs
\* before it (offset.saturating_add(size); u32 never saturates here).
RECURSIVE OffsetOf(_, _)
OffsetOf(entries, i) ==
    IF i <= 1 THEN 0
    ELSE OffsetOf(entries, i - 1) + Len(entries[i - 1][2])

\* The manifest pack_clf writes: num_entries (2 bytes), then op_id (2),
\* offset (4), size (4) for each entry.
PackManifest(entries) ==
    U16LE(Len(entries)) \o
    Concat([i \in 1..Len(entries) |->
              U16LE(entries[i][1]) \o U32LE(OffsetOf(entries, i))
                \o U32LE(Len(entries[i][2]))])

\* The blob store pack_clf writes: the blobs back to back.
PackBlobStore(entries) == Concat([i \in 1..Len(entries) |-> entries[i][2]])

\* The header pack_clf writes: magic, version, vendor length (2 bytes), vendor.
PackHeader(options) ==
    CLF_MAGIC \o <<options.version>> \o U16LE(Len(options.vendor))
      \o options.vendor

\* pack_clf were the duplicate check made after the header is written.
pack_clf_CheckAfterHeader(entries, options) ==
    IF Len(options.vendor) > U16_MAX
    THEN [err |-> "VendorTooLong", id |-> 0, bytes |-> <<>>]
    ELSE IF FirstDuplicate(entries) # 0
    THEN [err |-> "DuplicateOpId", id |-> entries[FirstDuplicate(entries)][1],
          bytes |-> PackHeader(options)]
    ELSE [err |-> "none", id |-> 0,
          bytes |-> PackHeader(options) \o PackManifest(entries)
                      \o PackBlobStore(entries)]

\* pack_clf(out, entries, options): the error it returns ("none": Ok) and the
\* bytes it has written to the sink by then.  Of the options the callers
\* build it reads vendor and version only.
pack_clf(entries, options) ==
    IF Len(options.vendor) > U16_MAX
    THEN [err |-> "VendorTooLong", id |-> 0, bytes |-> <<>>]
    ELSE IF FirstDuplicate(entries) # 0
    THEN [err |-> "DuplicateOpId", id |-> entries[FirstDuplicate(entries)][1],
          bytes |-> <<>>]
    ELSE [err |-> "none", id |-> 0,
          bytes |-> PackHeader(options) \o PackManifest(entries)
                      \o PackBlobStore(entries)]

\* The signature block append_signature writes after hashing the first
\* data_len bytes of the sink (fewer when the sink ends before).
SignatureBlock(s, data_len) ==
    SIG_MAGIC \o Sha256(SubSeq(s, 1, Min(data_len, Len(s))))

----------------------------------------------------------------------------
(* reader.rs *)

NoHeader ==
    [version |-> 0, vendor |-> <<>>, target |-> <<>>, blob_alignment |-> 0,
     kind |-> "Compute", header_end |-> 0]

NoReader ==
    [header |-> NoHeader, manifest |-> <<>>, blob_store_offset |-> 0,
     blob_store_len |-> 0, signature_verified |-> FALSE]

OpenErr(e, args) == [err |-> e, args |-> args, reader |-> NoReader]

\* The entries read by the manifest loop, in file order: count entries of
\* ENTRY_SIZE bytes starting at offset p, each op_id, offset, size (4 bytes).
ReadEntries(f, p, count) ==
    [i \in 1..count |->
        LET q == p + (i - 1) * ENTRY_SIZE
        IN  [op_id  |-> FromLE32(Bytes(f, q, 4)),
             offset |-> FromLE32(Bytes(f, q + 4, 4)),
             size   |-> FromLE32(Bytes(f, q + 8, 4))]]

\* The manifest were the first entry read for an op_id to be kept.
ManifestOf_FirstWins(es) ==
    [id \in {es[i].op_id : i \in 1..Len(es)} |->
        LET k == CHOOSE i \in 1..Len(es) :
                    /\ es[i].op_id = id
                    /\ \A j \in 1..Len(es) : es[j].op_id = id => i <= j
        IN  [op_id |-> id, offset |-> es[k].offset, size |-> es[k].size]]

\* manifest.insert(op_id, entry) for each entry in turn: a later entry
\* replaces an earlier one with the same op_id.
ManifestOf(es) ==
    [id \in {es[i].op_id : i \in 1..Len(es)} |->
        LET k == CHOOSE i \in 1..Len(es) :
                    /\ es[i].op_id = id
                    /\ \A j \in 1..Len(es) : es[j].op_id = id => j <= i
        IN  [op_id |-> id, offset |-> es[k].offset, size |-> es[k].size]]

\* The probe for a trailing signature block.
HasSig(f) ==
    /\ Len(f) >= SIG_BLOCK_LEN
    /\ Bytes(f, Len(f) - SIG_BLOCK_LEN, 4) = SIG_MAGIC

\* a.saturating_sub(b)
SatSub(a, b) == IF a >= b THEN a - b ELSE 0

\* blob_store_len were the trailing signature block counted as blob bytes.
BlobStoreLen_IgnoreSig(f, blob_store_offset) ==
    SatSub(Len(f), blob_store_offset)

\* blob_store_len as open computes it.
BlobStoreLen(f, blob_store_offset) ==
    IF HasSig(f)
    THEN SatSub(SatSub(Len(f), SIG_BLOCK_LEN), blob_store_offset)
    ELSE SatSub(Len(f), blob_store_offset)

\* The manifest and the blob store bounds, from header_end on.
OpenManifest(f, header) ==
    LET p == header.header_end IN
    IF ~CanRead(f, p, 4) THEN OpenErr("Io", <<>>)
    ELSE
    LET num_entries == FromLE32(Bytes(f, p, 4)) IN
    IF num_entries > Len(f) \/ ~CanRead(f, p + 4, num_entries * ENTRY_SIZE)
    THEN OpenErr("Io", <<>>)
    ELSE
    LET blob_store_offset == p + 4 + num_entries * ENTRY_SIZE IN
    [err |-> "none", args |-> <<>>,
     reader |-> [header |-> header,
                 manifest |-> ManifestOf(ReadEntries(f, p + 4, num_entries)),
                 blob_store_offset |-> blob_store_offset,
                 blob_store_len |-> BlobStoreLen(f, blob_store_offset),
                 signature_verified |-> FALSE]]

\* The header were it to hold a kind byte in every version.
ReadsKind_Always(version) == TRUE

\* The header holds a kind byte: version >= 2.
ReadsKind(version) == version >= 2

\* Target, blob alignment and kind, from the end of the vendor string (offset
\* p) on, then the expected-kind check.  Target and blob alignment are read
\* for every version; the kind byte only for version >= 2.
OpenTarget(f, version, vendor, p, expected_kind) ==
    IF ~CanRead(f, p, 4) THEN OpenErr("Io", <<>>)
    ELSE
    LET target_len == FromLE32(Bytes(f, p, 4)) IN
    IF ~CanRead(f, p + 4, target_len) THEN OpenErr("Io", <<>>)
    ELSE
    LET target == Bytes(f, p + 4, target_len)
        q == p + 4 + target_len
    IN
    IF ~ValidUtf8(target) THEN OpenErr("InvalidVendorUtf8", <<>>)
    ELSE IF ~CanRead(f, q, 1) THEN OpenErr("Io", <<>>)
    ELSE IF ReadsKind(version) /\ ~CanRead(f, q + 1, 1)
    THEN OpenErr("Io", <<>>)
    ELSE
    LET kind == IF ReadsKind(version) THEN from_byte(f[q + 2])
                ELSE default_for_v1
        header == [version |-> version, vendor |-> vendor, target |-> target,
                   blob_alignment |-> f[q + 1], kind |-> kind,
                   header_end |-> IF ReadsKind(version) THEN q + 2 ELSE q + 1]
    IN
    IF expected_kind # "None" /\ kind # expected_kind
    THEN OpenErr("KindMismatch", <<expected_kind, kind>>)
    ELSE OpenManifest(f, header)

\* open_with_expected_kind were the version tested before the magic.
open_with_expected_kind_VersionFirst(f, expected_kind) ==
    IF ~CanRead(f, 0, 5) THEN OpenErr("Io", <<>>)
    ELSE IF f[5] > CLF_VERSION
    THEN OpenErr("UnsupportedVersion", <<f[5], CLF_VERSION>>)
    ELSE IF Bytes(f, 0, 4) # CLF_MAGIC THEN OpenErr("InvalidMagic", <<>>)
    ELSE IF ~CanRead(f, 5, 4) THEN OpenErr("Io", <<>>)
    ELSE
    LET vendor_len == FromLE32(Bytes(f, 5, 4)) IN
    IF ~CanRead(f, 9, vendor_len) THEN OpenErr("Io", <<>>)
    ELSE IF ~ValidUtf8(Bytes(f, 9, vendor_len))
    THEN OpenErr("InvalidVendorUtf8", <<>>)
    ELSE OpenTarget(f, f[5], Bytes(f, 9, vendor_len), 9 + vendor_len,
                    expected_kind)

\* ClfReader::open_with_expected_kind on the file f; expected_kind is "None"
\* or a kind.  The result is the error, or the reader.
open_with_expected_kind(f, expected_kind) ==
    IF ~CanRead(f, 0, 4) THEN OpenErr("Io", <<>>)
    ELSE IF Bytes(f, 0, 4) # CLF_MAGIC THEN OpenErr("InvalidMagic", <<>>)
    ELSE IF ~CanRead(f, 4, 1) THEN OpenErr("Io", <<>>)
    ELSE IF f[5] > CLF_VERSION
    THEN OpenErr("UnsupportedVersion", <<f[5], CLF_VERSION>>)
    ELSE IF ~CanRead(f, 5, 4) THEN OpenErr("Io", <<>>)
    ELSE
    LET vendor_len == FromLE32(Bytes(f, 5, 4)) IN
    IF ~CanRead(f, 9, vendor_len) THEN OpenErr("Io", <<>>)
    ELSE IF ~ValidUtf8(Bytes(f, 9, vendor_len))
    THEN OpenErr("InvalidVendorUtf8", <<>>)
    ELSE OpenTarget(f, f[5], Bytes(f, 9, vendor_len), 9 + vendor_len,
                    expected_kind)

\* The I/O operations of open that follow the manifest: the seek that gives
\* the file length, the read of the signature probe, the seek back to the
\* blob store.
FaultSteps == {"file_len", "probe", "reseek"}

\* open_with_expected_kind when the device fails the I/O operation fault
\* (every operation before it succeeding as far as the file allows): the
\* result and the failure that occurred ("none" when open returned before
\* reaching the operation).  A failed seek is returned as the error; a failed
\* read of the probe makes has_sig false.
open_with_faults(f, expected_kind, fault) ==
    LET o == open_with_expected_kind(f, expected_kind) IN
    IF o.err # "none" THEN [res |-> o, fault |-> "none"]
    ELSE IF fault = "file_len" THEN [res |-> OpenErr("Io", <<>>), fault |-> fault]
    ELSE IF fault = "probe"
    THEN IF Len(f) < SIG_BLOCK_LEN THEN [res |-> o, fault |-> "none"]
         ELSE [res |-> [o EXCEPT !.reader.blob_store_len =
                           SatSub(Len(f), o.reader.blob_store_offset)],
               fault |-> fault]
    ELSE [res |-> OpenErr("Io", <<>>), fault |-> fault]

\* The result of a reader call.  tag: "Some" (bytes in blob), "None", "Err"
\* (the error in err, the op_id of MissingOpId in id), "Bool" (in flag),
\* "Ids" (in blob).  [from, to) are the file offsets the call read; cur is
\* where it leaves the cursor.
Result(tag, err, id, blob, flag, from, to, cur) ==
    [tag |-> tag, err |-> err, id |-> id, blob |-> blob, flag |-> flag,
     from |-> from, to |-> to, cur |-> cur]

\* start + size > blob_store_offset + blob_store_len, which the code
\* computes in u64; stated without the sums, which can exceed TLC's
\* integers when the manifest bytes are arbitrary.
PastBlobStore(entry, blob_store_len) ==
    \/ entry.offset > blob_store_len
    \/ entry.size > blob_store_len - entry.offset

\* get_blob were it to read at the cursor instead of seeking to the blob.
get_blob_NoSeek(r, f, c, op_id) ==
    IF op_id \notin DOMAIN r.manifest
    THEN Result("None", "", 0, <<>>, FALSE, -1, -1, c)
    ELSE
    LET entry == r.manifest[op_id] IN
    IF PastBlobStore(entry, r.blob_store_len)
    THEN Result("Err", "InvalidData", 0, <<>>, FALSE, -1, -1, c)
    ELSE IF ~CanRead(f, c, entry.size)
    THEN Result("Err", "Io", 0, <<>>, FALSE, -1, -1, c)
    ELSE Result("Some", "", 0, Bytes(f, c, entry.size), FALSE,
                c, c + entry.size, c + entry.size)

\* get_blob(op_id) on reader r over file f, the cursor being at c.
get_blob(r, f, c, op_id) ==
    IF op_id \notin DOMAIN r.manifest
    THEN Result("None", "", 0, <<>>, FALSE, -1, -1, c)
    ELSE
    LET entry == r.manifest[op_id] IN
    IF PastBlobStore(entry, r.blob_store_len)
    THEN Result("Err", "InvalidData", 0, <<>>, FALSE, -1, -1, c)
    ELSE
    LET start == r.blob_store_offset + entry.offset
        end == start + entry.size
    IN
    IF ~CanRead(f, start, entry.size)
    THEN Result("Err", "Io", 0, <<>>, FALSE, -1, -1, start)
    ELSE Result("Some", "", 0, Bytes(f, start, entry.size), FALSE,
                start, end, end)

\* verify_signature were a hash mismatch reported as Ok(false).
verify_signature_FalseOnMismatch(r, f, c) ==
    LET file_len == Len(f)
        data_len == file_len - SIG_BLOCK_LEN
    IN
    IF file_len < SIG_BLOCK_LEN
    THEN Result("Bool", "", 0, <<>>, FALSE, -1, -1, file_len)
    ELSE IF Bytes(f, data_len, 4) # SIG_MAGIC
    THEN Result("Bool", "", 0, <<>>, FALSE, data_len, file_len, file_len)
    ELSE IF Sha256(Bytes(f, 0, data_len)) # Bytes(f, data_len + 4, SIG_HASH_LEN)
    THEN Result("Bool", "", 0, <<>>, FALSE, 0, data_len, data_len)
    ELSE Result("Bool", "", 0, <<>>, TRUE, 0, data_len, r.blob_store_offset)

\* verify_signature() on reader r over file f.
verify_signature(r, f, c) ==
    LET file_len == Len(f) IN
    IF file_len < SIG_BLOCK_LEN
    THEN Result("Bool", "", 0, <<>>, FALSE, -1, -1, file_len)
    ELSE
    LET sig_block == Bytes(f, file_len - SIG_BLOCK_LEN, SIG_BLOCK_LEN)
        sig_magic == SubSeq(sig_block, 1, 4)
        stored_hash == SubSeq(sig_block, 5, SIG_BLOCK_LEN)
        data_len == file_len - SIG_BLOCK_LEN
    IN
    IF sig_magic # SIG_MAGIC
    THEN Result("Bool", "", 0, <<>>, FALSE, file_len - SIG_BLOCK_LEN,
                file_len, file_len)
    ELSE IF Sha256(Bytes(f, 0, data_len)) # stored_hash
    THEN Result("Err", "SignatureInvalid", 0, <<>>, FALSE, 0, data_len,
                data_len)
    ELSE Result("Bool", "", 0, <<>>, TRUE, 0, data_len, r.blob_store_offset)

\* The ids of set S in ascending order (sort_unstable).
RECURSIVE Sorted(_)
Sorted(S) ==
    IF S = {} THEN <<>>
    ELSE LET m == CHOOSE x \in S : \A y \in S : x <= y
         IN  <<m>> \o Sorted(S \ {m})

\* op_ids(): the manifest's keys, sorted.
op_ids(r) == Sorted(DOMAIN r.manifest)

\* The loop of build_code_section were an op_id whose get_blob fails
\* skipped under Skip, like a missing one.
RECURSIVE BuildFrom_SkipErrors(_, _, _, _, _, _, _)
BuildFrom_SkipErrors(r, f, ids, policy, k, out, c) ==
    IF k > Len(ids) THEN Result("Some", "", 0, out, FALSE, -1, -1, c)
    ELSE
    LET g == get_blob(r, f, c, ids[k]) IN
    IF g.tag = "Err" /\ policy = "Fail"
    THEN Result("Err", g.err, 0, <<>>, FALSE, -1, -1, g.cur)
    ELSE IF g.tag = "None" /\ policy = "Fail"
    THEN Result("Err", "MissingOpId", ids[k], <<>>, FALSE, -1, -1, g.cur)
    ELSE BuildFrom_SkipErrors(r, f, ids, policy, k + 1, out \o g.blob,
                              g.cur)

\* The loop of build_code_section were a missing op_id skipped under either
\* policy.
RECURSIVE BuildFrom_IgnorePolicy(_, _, _, _, _, _, _)
BuildFrom_IgnorePolicy(r, f, ids, policy, k, out, c) ==
    IF k > Len(ids) THEN Result("Some", "", 0, out, FALSE, -1, -1, c)
    ELSE
    LET g == get_blob(r, f, c, ids[k]) IN
    IF g.tag = "Err" THEN Result("Err", g.err, 0, <<>>, FALSE, -1, -1, g.cur)
    ELSE BuildFrom_IgnorePolicy(r, f, ids, policy, k + 1, out \o g.blob,
                                g.cur)

\* build_code_section(op_ids, policy): the loop from index k on, out being
\* the bytes appended so far and c the cursor.
RECURSIVE BuildFrom(_, _, _, _, _, _, _)
BuildFrom(r, f, ids, policy, k, out, c) ==
    IF k > Len(ids) THEN Result("Some", "", 0, out, FALSE, -1, -1, c)
    ELSE
    LET g == get_blob(r, f, c, ids[k]) IN
    IF g.tag = "Err" THEN Result("Err", g.err, 0, <<>>, FALSE, -1, -1, g.cur)
    ELSE IF g.tag = "Some"
    THEN BuildFrom(r, f, ids, policy, k + 1, out \o g.blob, g.cur)
    ELSE IF policy = "Fail"
    THEN Result("Err", "MissingOpId", ids[k], <<>>, FALSE, -1, -1, g.cur)
    ELSE BuildFrom(r, f, ids, policy, k + 1, out, g.cur)

\* build_code_section were it to walk the requested op_ids in ascending
\* order, each once.
build_code_section_Sorted(r, f, c, ids, policy) ==
    BuildFrom(r, f, Sorted({ids[k] : k \in 1..Len(ids)}), policy, 1, <<>>, c)

build_code_section(r, f, c, ids, policy) ==
    BuildFrom(r, f, ids, policy, 1, <<>>, c)

----------------------------------------------------------------------------
(* Inputs *)

SeqsUpTo(S, n) == UNION {[1..k -> S] : k \in 0..n}

\* pack_clf's arguments: entries are <<op_id, blob>>.
PackIds == {1, 50}
PackBlobs == {<<33>>, <<34, 35>>}
PackEntryLists == SeqsUpTo(PackIds \X PackBlobs, MaxPackEntries)
LongVendor == [i \in 1..(U16_MAX + 1) |-> 86]
PackVendors == {<<>>, <<86>>}
\* The options as the callers build them (vendor, target, blob_alignment,
\* kind, version; sign is the caller's choice to call append_signature).
PackOptionSet ==
    [vendor : PackVendors, target : {<<67>>}, blob_alignment : {0, 2},
     kind : {"Compute", "MemoryMovement"}, version : {1, 2}]
\* Options whose vendor is one byte longer than pack_clf accepts.
LongVendorOptions ==
    [vendor |-> LongVendor, target |-> <<>>, blob_alignment |-> 0,
     kind |-> "Compute", version |-> CLF_VERSION]

\* A file laid out the way the reader parses it: magic, version, vendor and
\* target with 4-byte lengths, blob alignment, the kind byte for version >= 2,
\* the entry count (4 bytes), the entries <<op_id, <<offset, size>>>> of
\* ENTRY_SIZE bytes each, then the blob store.
CraftBytes(h, m, store) ==
    CLF_MAGIC \o <<h.version>> \o U32LE(Len(h.vendor)) \o h.vendor
      \o U32LE(Len(h.target)) \o h.target \o <<h.blob_alignment>>
      \o (IF h.version >= 2 THEN <<h.kind>> ELSE <<>>)
      \o U32LE(Len(m))
      \o Concat([i \in 1..Len(m) |->
                   U32LE(m[i][1]) \o U32LE(m[i][2][1]) \o U32LE(m[i][2][2])])
      \o store

CraftHeaders ==
    {h \in [version : {1, 2}, vendor : {<<>>, <<86>>}, target : {<<>>, <<67>>},
            blob_alignment : {0, 2}, kind : {0, 1, 2, 9}] :
        h.version = 1 => h.kind = 0}
BaseHeader ==
    [version |-> 2, vendor |-> <<86>>, target |-> <<67>>,
     blob_alignment |-> 0, kind |-> 0]
BaseHeaderV1 ==
    [version |-> 1, vendor |-> <<>>, target |-> <<67>>,
     blob_alignment |-> 2, kind |-> 0]
\* The entries of a manifest.  The store has 4 bytes, so <<3, 2>> ends past
\* it; an op_id can occur twice, at different places.
CraftEntries ==
    {<<50, <<0, 2>>>>, <<1, <<2, 2>>>>, <<1, <<3, 2>>>>, <<50, <<2, 2>>>>}
CraftStore == <<17, 18, 19, 20>>
CraftManifests == SeqsUpTo(CraftEntries, MaxEntries)
BaseManifest == << <<50, <<0, 2>>>>, <<1, <<2, 2>>>> >>
HeaderManifest == << <<1, <<0, 2>>>> >>

\* An unsigned file whose last SIG_BLOCK_LEN bytes are blob bytes that begin
\* with SIG0.
LookalikeStore == SIG_MAGIC \o [i \in 1..SIG_HASH_LEN |-> 33]
LookalikeFile ==
    CraftBytes(BaseHeader, << <<1, <<0, SIG_BLOCK_LEN>>>> >>, LookalikeStore)

\* An unsigned file whose last SIG_BLOCK_LEN bytes begin inside the manifest:
\* the op_id of its only entry is SIG0 read as an integer.
SigId == FromLE32(SIG_MAGIC)
OverlapFile ==
    CraftBytes(BaseHeader, << <<SigId, <<0, 0>>>> >>,
               [i \in 1..(SIG_BLOCK_LEN - ENTRY_SIZE) |-> 33])

\* A version-1 file with no entries whose blob store begins with zeros: read
\* one byte further on, its bytes would also give a kind and a count.
ZeroStoreFile ==
    CraftBytes(BaseHeaderV1, <<>>, [i \in 1..Len(CraftStore) |-> 0])

\* Files that do not begin with CLF1, and files of a version later than
\* CLF_VERSION, with and without bytes after the version byte.
BaseFile == CraftBytes(BaseHeader, BaseManifest, CraftStore)
BadMagic == <<67, 76, 70, 50>>
FutureVersion == CLF_VERSION + 1
MagicFiles ==
    {BadMagic \o <<v>> \o SubSeq(BaseFile, 6, Len(BaseFile)) :
        v \in {1, CLF_VERSION, FutureVersion}}
    \cup {BadMagic, BadMagic \o <<FutureVersion>>}
VersionFiles ==
    {CLF_MAGIC \o <<FutureVersion>> \o SubSeq(BaseFile, 6, Len(BaseFile)),
     CLF_MAGIC \o <<FutureVersion>>}

\* BaseFile cut short: its first n bytes.
Truncations == {SubSeq(BaseFile, 1, n) : n \in 0..(Len(BaseFile) - 1)}

CraftedFiles ==
    {CraftBytes(h, HeaderManifest, CraftStore) : h \in CraftHeaders}
    \cup {CraftBytes(BaseHeader, m, CraftStore) : m \in CraftManifests}
    \cup {LookalikeFile, OverlapFile, ZeroStoreFile}
    \cup MagicFiles \cup VersionFiles \cup Truncations

\* The files of the tampering specification.
TamperFiles ==
    {CraftBytes(h, BaseManifest, CraftStore) : h \in {BaseHeader, BaseHeaderV1}}

ExpectedKinds == {"None", "Compute", "MemoryMovement", "MemoryProtection"}
AbsentId == 99
\* The op_ids a caller asks for: those of the manifest and one it lacks.
AskIds == DOMAIN reader.manifest \cup {AbsentId}
Policies == {"Fail", "Skip"}

\* The bits a modification of the file flips.
FlipBits == {0, 5}
FlipBit(b, k) ==
    LET w == IF k = 0 THEN 1 ELSE 32
    IN  IF (b \div w) % 2 = 1 THEN b - w ELSE b + w

----------------------------------------------------------------------------
(* The state machine *)

NoResult == Result("None", "", 0, <<>>, FALSE, -1, -1, 0)
NoCall == [op |-> "none", ids |-> <<>>, policy |-> "", res |-> NoResult]
NoPack == [entries |-> <<>>, vendor |-> <<>>, vendor_len |-> 0,
           target |-> <<>>, blob_alignment |-> 0, kind |-> "Compute",
           version |-> 0]

Init ==
    /\ sink = <<>>
    /\ pos = 0
    /\ origin = "none"
    /\ packIn = NoPack
    /\ packRes = [err |-> "none", id |-> 0, data_len |-> 0]
    /\ sigLen = -1
    /\ hashed = <<>>
    /\ flips = 0
    /\ pc = "init"
    /\ openRes = [err |-> "none", args |-> <<>>, expected |-> "None",
                  fault |-> "none"]
    /\ reader = NoReader
    /\ cursor = 0
    /\ last = NoCall

\* pack_clf(&mut sink, entries, options)
Pack(entries, options) ==
    LET r == pack_clf(entries, options)
        fits == Len(options.vendor) <= U16_MAX
    IN
    /\ pc = "init"
    /\ sink' = WriteAt(sink, pos, r.bytes)
    /\ pos' = pos + Len(r.bytes)
    /\ origin' = "packed"
    /\ packIn' = [entries |-> entries,
                  vendor |-> IF fits THEN options.vendor ELSE <<>>,
                  vendor_len |-> Len(options.vendor),
                  target |-> options.target,
                  blob_alignment |-> options.blob_alignment,
                  kind |-> options.kind, version |-> options.version]
    /\ packRes' = [err |-> r.err, id |-> r.id,
                   data_len |-> IF r.err = "none" THEN pos' ELSE 0]
    /\ pc' = IF r.err = "none" THEN "written" ELSE "packfail"
    /\ UNCHANGED <<sigLen, hashed, flips, openRes, reader, cursor, last>>

\* A file that was not written by this packer is put in place.
Craft(f) ==
    /\ pc = "init"
    /\ sink' = f
    /\ pos' = Len(f)
    /\ origin' = "crafted"
    /\ pc' = "written"
    /\ UNCHANGED <<packIn, packRes, sigLen, hashed, flips, openRes, reader,
                   cursor, last>>

\* append_signature(&mut sink, data_len), data_len being what pack_clf
\* returned (the length of the file for a crafted one).
AppendSignature ==
    LET data_len == IF origin = "packed" THEN packRes.data_len ELSE Len(sink)
    IN
    /\ pc = "written"
    /\ sigLen = -1
    /\ sink' = WriteAt(sink, Len(sink), SignatureBlock(sink, data_len))
    /\ pos' = Len(sink')
    /\ sigLen' = data_len
    /\ hashed' = SubSeq(sink, 1, Min(data_len, Len(sink)))
    /\ UNCHANGED <<origin, packIn, packRes, flips, pc, openRes, reader,
                   cursor, last>>

\* One bit of byte i of a signed file is flipped before the file is opened.
Tamper(i, k) ==
    /\ pc = "written"
    /\ sigLen >= 0
    /\ flips < MaxFlips
    /\ sink' = [sink EXCEPT ![i] = FlipBit(@, k)]
    /\ flips' = flips + 1
    /\ UNCHANGED <<pos, origin, packIn, packRes, sigLen, hashed, pc, openRes,
                   reader, cursor, last>>

\* ClfReader::open_with_expected_kind(path, expected_kind)
Open(expected_kind) ==
    LET o == open_with_expected_kind(sink, expected_kind) IN
    /\ pc = "written"
    /\ openRes' = [err |-> o.err, args |-> o.args, expected |-> expected_kind,
                   fault |-> "none"]
    /\ reader' = o.reader
    /\ cursor' = o.reader.blob_store_offset
    /\ pc' = IF o.err = "none" THEN "open" ELSE "openfail"
    /\ UNCHANGED <<sink, pos, origin, packIn, packRes, sigLen, hashed, flips,
                   last>>

\* ClfReader::open_with_expected_kind(path, expected_kind) on a device that
\* fails one I/O operation.
OpenFaulty(expected_kind, fault) ==
    LET o == open_with_faults(sink, expected_kind, fault) IN
    /\ pc = "written"
    /\ openRes' = [err |-> o.res.err, args |-> o.res.args,
                   expected |-> expected_kind, fault |-> o.fault]
    /\ reader' = o.res.reader
    /\ cursor' = o.res.reader.blob_store_offset
    /\ pc' = IF o.res.err = "none" THEN "open" ELSE "openfail"
    /\ UNCHANGED <<sink, pos, origin, packIn, packRes, sigLen, hashed, flips,
                   last>>

\* reader.get_blob(op_id)
GetBlob(op_id) ==
    LET g == get_blob(reader, sink, cursor, op_id) IN
    /\ pc = "open"
    /\ last' = [op |-> "get_blob", ids |-> <<op_id>>, policy |-> "",
                res |-> g]
    /\ cursor' = g.cur
    /\ UNCHANGED <<sink, pos, origin, packIn, packRes, sigLen, hashed, flips,
                   pc, openRes, reader>>

\* verify_signature were it to set the flag whatever it returns.
VerifySignature_AlwaysSets ==
    LET v == verify_signature(reader, sink, cursor) IN
    /\ pc = "open"
    /\ last' = [op |-> "verify_signature", ids |-> <<>>, policy |-> "",
                res |-> v]
    /\ reader' = [reader EXCEPT !.signature_verified = TRUE]
    /\ cursor' = v.cur
    /\ UNCHANGED <<sink, pos, origin, packIn, packRes, sigLen, hashed, flips,
                   pc, openRes>>

\* reader.verify_signature()
VerifySignature ==
    LET v == verify_signature(reader, sink, cursor) IN
    /\ pc = "open"
    /\ last' = [op |-> "verify_signature", ids |-> <<>>, policy |-> "",
                res |-> v]
    /\ reader' = IF v.tag = "Bool" /\ v.flag
                 THEN [reader EXCEPT !.signature_verified = TRUE]
                 ELSE reader
    /\ cursor' = v.cur
    /\ UNCHANGED <<sink, pos, origin, packIn, packRes, sigLen, hashed, flips,
                   pc, openRes>>

\* reader.op_ids()
OpIds ==
    /\ pc = "open"
    /\ last' = [op |-> "op_ids", ids |-> <<>>, policy |-> "",
                res |-> Result("Ids", "", 0, op_ids(reader), FALSE, -1, -1,
                               cursor)]
    /\ UNCHANGED <<sink, pos, origin, packIn, packRes, sigLen, hashed, flips,
                   pc, openRes, reader, cursor>>

\* reader.build_code_section(op_ids, policy)
BuildCodeSection(ids, policy) ==
    LET b == build_code_section(reader, sink, cursor, ids, policy) IN
    /\ pc = "open"
    /\ last' = [op |-> "build_code_section", ids |-> ids, policy |-> policy,
                res |-> b]
    /\ cursor' = b.cur
    /\ UNCHANGED <<sink, pos, origin, packIn, packRes, sigLen, hashed, flips,
                   pc, openRes, reader>>

\* The calls on an open reader, in any order.  Two build_code_section calls
\* in a row are left out: the second would start from a reader and a cursor
\* that get_blob also leaves.
ReaderCalls ==
    \/ \E id \in AskIds : GetBlob(id)
    \/ VerifySignature
    \/ OpIds
    \/ /\ last.op # "build_code_section"
       /\ \E ids \in SeqsUpTo(AskIds, MaxIds), policy \in Policies :
             BuildCodeSection(ids, policy)

Next ==
    \/ \E entries \in PackEntryLists, options \in PackOptionSet :
          Pack(entries, options)
    \/ \E entries \in PackEntryLists : Pack(entries, LongVendorOptions)
    \/ \E f \in CraftedFiles : Craft(f)
    \/ AppendSignature
    \/ \E k \in ExpectedKinds : Open(k)
    \/ ReaderCalls

Spec == Init /\ [][Next]_vars

\* Signed files that are modified before they are opened.
NextTamper ==
    \/ \E f \in TamperFiles : Craft(f)
    \/ AppendSignature
    \/ \E i \in 1..Len(sink), k \in FlipBits : Tamper(i, k)
    \/ Open("None")
    \/ \E id \in AskIds : GetBlob(id)
    \/ VerifySignature

SpecTamper == Init /\ [][NextTamper]_vars

\* Files opened on a device that fails an I/O operation of open.
FaultFiles == TamperFiles \cup Truncations

NextFault ==
    \/ \E f \in FaultFiles : Craft(f)
    \/ AppendSignature
    \/ \E k \in ExpectedKinds, fault \in FaultSteps : OpenFaulty(k, fault)
    \/ \E id \in AskIds : GetBlob(id)
    \/ VerifySignature

SpecFault == Init /\ [][NextFault]_vars

----------------------------------------------------------------------------
(* Properties *)

\* The blobs pack_clf was given under op_id id.
Originals(id) ==
    {packIn.entries[i][2] :
        i \in {j \in 1..Len(packIn.entries) : packIn.entries[j][1] = id}}

\* The sink holds what a successful pack_clf wrote; Unsigned: and nothing
\* else; Signed: followed by the block of append_signature(data_len).
Packed == origin = "packed" /\ packRes.err = "none"
Unsigned == sigLen = -1
Signed == sigLen >= 0

\* The last call was get_blob and returned the blob packed under its op_id,
\* None when no entry had that op_id.
ReturnsOriginal ==
    IF Originals(last.ids[1]) = {}
    THEN last.res.tag = "None"
    ELSE last.res.tag = "Some" /\ last.res.blob \in Originals(last.ids[1])

\* C1: a container written by pack_clf with blob_alignment 0 and not signed
\* is opened by ClfReader::open, and get_blob then returns for every packed
\* op_id the bytes that were packed under it and None for any other op_id.
C1_RoundTrip ==
    (Packed /\ Unsigned /\ packIn.blob_alignment = 0
       /\ openRes.expected = "None") =>
        /\ pc # "openfail"
        /\ (pc = "open" /\ last.op = "get_blob") => ReturnsOriginal

\* Where the blob store ends: the end of the file, SIG_BLOCK_LEN bytes before
\* it when the last SIG_BLOCK_LEN bytes of the file begin with SIG0.
StoreEnd ==
    IF /\ Len(sink) >= SIG_BLOCK_LEN
       /\ SubSeq(sink, Len(sink) - SIG_BLOCK_LEN + 1,
                 Len(sink) - SIG_BLOCK_LEN + 4) = SIG_MAGIC
    THEN Len(sink) - SIG_BLOCK_LEN
    ELSE Len(sink)

\* offset + size <= len, for fields of up to 32 bits.
Within(offset, size, len) == offset <= len /\ size <= len - offset

\* C2: on an open reader blob_store_len is the length of the file minus
\* blob_store_offset, less SIG_BLOCK_LEN when the last SIG_BLOCK_LEN bytes of
\* the file begin with SIG0 (and 0 when that would be negative).  get_blob of
\* an op_id of the manifest whose offset + size exceeds blob_store_len fails
\* with the error "manifest entry extends past blob store" (InvalidData) and
\* reads nothing; otherwise it returns the size bytes of the file at
\* blob_store_offset + offset, none of which is a byte of the signature
\* block or lies past the end of the file.
C2_BoundsSafety ==
    pc = "open" =>
        LET bso == reader.blob_store_offset
            len == IF StoreEnd >= bso THEN StoreEnd - bso ELSE 0
        IN
        /\ reader.blob_store_len = len
        /\ (last.op = "get_blob" /\ last.ids[1] \in DOMAIN reader.manifest) =>
              LET e == reader.manifest[last.ids[1]]
                  res == last.res
              IN  IF ~Within(e.offset, e.size, len)
                  THEN /\ res.tag = "Err" /\ res.err = "InvalidData"
                       /\ res.from = -1 /\ res.blob = <<>>
                  ELSE /\ res.tag = "Some"
                       /\ res.from = bso + e.offset
                       /\ res.to = res.from + e.size
                       /\ \A k \in (res.from + 1)..res.to :
                             k <= StoreEnd /\ k <= Len(sink)
                       /\ res.blob = SubSeq(sink, res.from + 1, res.to)

\* C2's case: a signed file, and an entry that ends inside the signature
\* block is refused.
C2_Witness ==
    /\ pc = "open" /\ Signed /\ StoreEnd < Len(sink)
    /\ last.op = "get_blob" /\ last.ids[1] \in DOMAIN reader.manifest
    /\ last.res.tag = "Err" /\ last.res.err = "InvalidData"
    /\ LET e == reader.manifest[last.ids[1]]
       IN  /\ Within(e.offset, e.size, Len(sink))
           /\ reader.blob_store_offset + e.offset + e.size > StoreEnd
           /\ reader.blob_store_offset + e.offset + e.size <= Len(sink)

\* Two entries of the pack_clf call share an op_id.
HasDuplicate ==
    \E i, j \in 1..Len(packIn.entries) :
        i < j /\ packIn.entries[i][1] = packIn.entries[j][1]

\* C3: pack_clf given two entries with the same op_id (and a vendor string
\* of at most U16_MAX bytes, which it checks first) fails with DuplicateOpId
\* naming the first op_id that repeats an earlier entry's, and the sink's
\* contents and position are what they were before the call.
C3_DuplicateRejected ==
    (origin = "packed" /\ HasDuplicate /\ packIn.vendor_len <= U16_MAX) =>
        /\ pc = "packfail"
        /\ packRes.err = "DuplicateOpId"
        /\ \E j \in 1..Len(packIn.entries) :
              /\ packIn.entries[j][1] = packRes.id
              /\ \E i \in 1..(j - 1) : packIn.entries[i][1] = packRes.id
              /\ \A k \in 1..(j - 1) : \A i \in 1..(k - 1) :
                    packIn.entries[i][1] # packIn.entries[k][1]
        /\ sink = <<>> /\ pos = 0

\* C3's case: pack_clf has returned DuplicateOpId for two entries.
C3_Witness ==
    /\ origin = "packed" /\ HasDuplicate /\ packRes.err = "DuplicateOpId"
    /\ Len(packIn.entries) >= 2 /\ packIn.entries[1][2] # <<>>

\* C4: a container written by pack_clf and signed with append_signature(
\* data_len), data_len being the position pack_clf returned, is opened by
\* ClfReader::open; get_blob returns the packed bytes; signature_verified is
\* false until verify_signature, which returns Ok(true) and sets it.
C4_SignedRoundTrip ==
    (Packed /\ Signed /\ sigLen = packRes.data_len
       /\ openRes.expected = "None") =>
        /\ pc # "openfail"
        /\ (pc = "open" /\ last.op = "get_blob") => ReturnsOriginal
        /\ (pc = "open" /\ last.op = "verify_signature") =>
              /\ last.res.tag = "Bool" /\ last.res.flag
              /\ reader.signature_verified
\* The region append_signature's block follows: the file without its last
\* SIG_BLOCK_LEN bytes.
DataRegion == SubSeq(sink, 1, Len(sink) - SIG_BLOCK_LEN)

\* The file ends with a SIG0 block and a byte before the block is not what
\* append_signature hashed.
TamperedData == Signed /\ StoreEnd < Len(sink) /\ DataRegion # hashed

\* C5: on an open reader of a signed container (trailing SIG0 block present)
\* in which a byte before the block differs from the bytes hashed at signing
\* time, verify_signature returns SignatureInvalid, never Ok(false) or
\* Ok(true), and signature_verified is not set.
C5_TamperDetected ==
    (pc = "open" /\ TamperedData) =>
        /\ ~reader.signature_verified
        /\ last.op = "verify_signature" =>
              last.res.tag = "Err" /\ last.res.err = "SignatureInvalid"

\* C5's case: a bit of the data region was flipped, the file was opened and
\* verify_signature has run.
C5_Witness ==
    /\ pc = "open" /\ TamperedData /\ flips > 0
    /\ last.op = "verify_signature" /\ last.res.tag = "Err"

\* C6: a container written by pack_clf on which append_signature was not
\* called is opened, verify_signature on it returns Ok(false), and
\* signature_verified stays false.
C6_UnsignedVerifiesFalse ==
    (Packed /\ Unsigned /\ openRes.expected = "None") =>
        /\ pc # "openfail"
        /\ ~reader.signature_verified
        /\ (pc = "open" /\ last.op = "verify_signature") =>
              last.res.tag = "Bool" /\ ~last.res.flag

\* The second half of C6 on files laid out as the reader parses them:
\* verify_signature on an unsigned file returns Ok(false), also when blob
\* bytes SIG_BLOCK_LEN from the end of the file are SIG0.
UnsignedCraftedVerifiesFalse ==
    (origin = "crafted" /\ Unsigned /\ pc = "open"
       /\ last.op = "verify_signature") =>
        last.res.tag = "Bool" /\ ~last.res.flag

Present(id) == id \in DOMAIN reader.manifest
Readable(id) ==
    Within(reader.manifest[id].offset, reader.manifest[id].size,
           reader.blob_store_len)
BlobOf(id) ==
    SubSeq(sink, reader.blob_store_offset + reader.manifest[id].offset + 1,
           reader.blob_store_offset + reader.manifest[id].offset
             + reader.manifest[id].size)
Built == pc = "open" /\ last.op = "build_code_section"

\* C8: build_code_section(op_ids, policy), every requested op_id having an
\* entry that lies inside the blob store, returns the blobs of the op_ids
\* concatenated in the order of the input, an op_id that occurs k times
\* contributing k copies, whatever the numeric order of the ids.
C8_InputOrder ==
    (Built /\ \A k \in 1..Len(last.ids) :
                  Present(last.ids[k]) /\ Readable(last.ids[k])) =>
        /\ last.res.tag = "Some"
        /\ last.res.blob =
              Concat([k \in 1..Len(last.ids) |-> BlobOf(last.ids[k])])

\* C8's case: two op_ids in descending order with different blobs.
C8_Witness ==
    /\ Built /\ Len(last.ids) = 2 /\ last.ids[1] > last.ids[2]
    /\ \A k \in 1..2 : Present(last.ids[k]) /\ Readable(last.ids[k])
    /\ BlobOf(last.ids[1]) # BlobOf(last.ids[2])
    /\ last.res.tag = "Some" /\ last.res.blob # <<>>

\* The index of the first requested op_id the manifest lacks.
FirstAbsent ==
    CHOOSE k \in 1..Len(last.ids) :
        /\ ~Present(last.ids[k])
        /\ \A j \in 1..(k - 1) : Present(last.ids[j])

\* C9: build_code_section with an op_id the manifest lacks: under Fail it
\* returns MissingOpId carrying the first such op_id of the input and no
\* bytes (the entries of the op_ids before it lying inside the blob store);
\* under Skip it returns the concatenation, in input order, of the blobs of
\* the op_ids that are present (their entries lying inside the blob store).
C9_MissingIdPolicy ==
    (Built /\ \E k \in 1..Len(last.ids) : ~Present(last.ids[k])) =>
        /\ (last.policy = "Fail"
              /\ \A j \in 1..(FirstAbsent - 1) : Readable(last.ids[j])) =>
              /\ last.res.tag = "Err" /\ last.res.err = "MissingOpId"
              /\ last.res.id = last.ids[FirstAbsent]
              /\ last.res.blob = <<>>
        /\ (last.policy = "Skip"
              /\ \A j \in 1..Len(last.ids) :
                    Present(last.ids[j]) => Readable(last.ids[j])) =>
              LET present == SelectSeq(last.ids, Present)
              IN  /\ last.res.tag = "Some"
                  /\ last.res.blob =
                        Concat([k \in 1..Len(present) |-> BlobOf(present[k])])

\* C9's case: under Fail, a present op_id with a blob, then an absent one.
C9_Witness ==
    /\ Built /\ last.policy = "Fail" /\ Len(last.ids) = 2
    /\ Present(last.ids[1]) /\ Readable(last.ids[1])
    /\ BlobOf(last.ids[1]) # <<>> /\ ~Present(last.ids[2])
    /\ last.res.err = "MissingOpId"

\* The offset of entry i in the manifest pack_clf wrote: the header takes
\* 7 bytes and the vendor, the count 2, each entry 10, the op_id 2 of them.
PackedOffset(i) ==
    LET q == 7 + Len(packIn.vendor) + 2 + (i - 1) * 10 + 2
    IN  FromLE32(SubSeq(sink, q + 1, q + 4))

\* C10: in a container written by pack_clf with blob_alignment a > 0 every
\* manifest offset is a multiple of a, the container is opened, and get_blob
\* returns each blob padded to a multiple of a: the packed bytes, then zeros.
C10_Aligned ==
    (Packed /\ packIn.blob_alignment > 0) =>
        /\ \A i \in 1..Len(packIn.entries) :
              PackedOffset(i) % packIn.blob_alignment = 0
        /\ openRes.expected = "None" => pc # "openfail"
        /\ (pc = "open" /\ last.op = "get_blob" /\ last.res.tag = "Some") =>
              /\ Len(last.res.blob) % packIn.blob_alignment = 0
              /\ \E b \in Originals(last.ids[1]) :
                    /\ Len(b) <= Len(last.res.blob)
                    /\ SubSeq(last.res.blob, 1, Len(b)) = b
                    /\ \A k \in (Len(b) + 1)..Len(last.res.blob) :
                          last.res.blob[k] = 0

\* C11: for a container written by pack_clf with version 2 options,
\* ClfReader::open returns a reader whose header has the version, vendor,
\* target, blob_alignment and kind given to the packer (packer and reader
\* agreeing on the widths of the length prefixes, the count and the op_id).
C11_HeaderRoundTrip ==
    (Packed /\ packIn.version = 2 /\ openRes.expected = "None") =>
        /\ pc # "openfail"
        /\ pc = "open" =>
              /\ reader.header.version = packIn.version
              /\ reader.header.vendor = packIn.vendor
              /\ reader.header.target = packIn.target
              /\ reader.header.blob_alignment = packIn.blob_alignment
              /\ reader.header.kind = packIn.kind

\* open has returned: a reader, or an error.
Opened == pc \in {"open", "openfail"}
OpenFailedWith(e) ==
    pc = "openfail" /\ openRes.err = e /\ reader = NoReader

\* C12: open of a file whose first 4 bytes are not CLF1 fails with
\* InvalidMagic, whatever the version byte; open of a file that begins with
\* CLF1 and whose version byte v is greater than CLF_VERSION fails with
\* UnsupportedVersion(v, CLF_VERSION); no reader is returned, and what
\* follows the version byte (or that nothing follows) makes no difference.
C12_MagicThenVersion ==
    Opened =>
        /\ (Len(sink) >= 4 /\ SubSeq(sink, 1, 4) # <<67, 76, 70, 49>>) =>
              OpenFailedWith("InvalidMagic")
        /\ (Len(sink) >= 5 /\ SubSeq(sink, 1, 4) = <<67, 76, 70, 49>>
              /\ sink[5] > 2) =>
              /\ OpenFailedWith("UnsupportedVersion")
              /\ openRes.args = <<sink[5], 2>>

\* C12's case: a file with a wrong magic and a version byte above
\* CLF_VERSION has been refused.
C12_Witness ==
    /\ pc = "openfail" /\ Len(sink) >= 5
    /\ SubSeq(sink, 1, 4) # <<67, 76, 70, 49>> /\ sink[5] > 2
    /\ openRes.err = "InvalidMagic"

\* The file begins with CLF1 and version 2, and holds a vendor string, a
\* target string (4-byte lengths, bytes below 128), an alignment byte and a
\* kind byte; the offset of the kind byte.
VendorEnd == 9 + FromLE32(SubSeq(sink, 6, 9))
TargetEnd == VendorEnd + 4 + FromLE32(SubSeq(sink, VendorEnd + 1, VendorEnd + 4))
HasKindByte ==
    /\ Len(sink) >= 9 /\ SubSeq(sink, 1, 4) = <<67, 76, 70, 49>> /\ sink[5] = 2
    /\ FromLE32(SubSeq(sink, 6, 9)) <= Len(sink)
    /\ VendorEnd + 4 <= Len(sink)
    /\ FromLE32(SubSeq(sink, VendorEnd + 1, VendorEnd + 4)) <= Len(sink)
    /\ TargetEnd + 2 <= Len(sink)
    /\ \A i \in 10..TargetEnd : sink[i] < 128
KindByte == sink[TargetEnd + 2]

\* C13: for a version-2 file the kind is Compute for the byte 0,
\* MemoryMovement for 1, MemoryProtection for 2 and Compute for any other
\* byte; open_with_expected_kind(Some(k)) fails with KindMismatch{expected: k,
\* actual: the decoded kind} exactly when the decoded kind differs from k;
\* otherwise, and always with expected_kind None, the kind makes no failure
\* and a reader that is returned has the decoded kind.
C13_KindHandling ==
    (Opened /\ HasKindByte) =>
        LET decoded == IF KindByte = 1 THEN "MemoryMovement"
                       ELSE IF KindByte = 2 THEN "MemoryProtection"
                       ELSE "Compute"
        IN  IF openRes.expected # "None" /\ openRes.expected # decoded
            THEN /\ OpenFailedWith("KindMismatch")
                 /\ openRes.args = <<openRes.expected, decoded>>
            ELSE /\ openRes.err # "KindMismatch"
                 /\ pc = "open" => reader.header.kind = decoded

\* C13's case: a kind byte other than 0, 1, 2 and a caller that expects
\* Compute: a reader is returned.
C13_Witness ==
    /\ pc = "open" /\ HasKindByte /\ KindByte > 2
    /\ openRes.expected = "Compute" /\ reader.header.kind = "Compute"

\* The file is BaseFile cut before the end of its manifest.
CutBeforeStore ==
    /\ origin = "crafted" /\ Unsigned
    /\ Len(sink) < Len(BaseFile) - Len(CraftStore)
    /\ sink = SubSeq(BaseFile, 1, Len(sink))

\* C14: when a read or seek of open fails (the file ends before the bytes
\* to read, or the device fails the seek for the file length, the read of
\* the signature probe or the seek back), open returns an I/O error and no
\* reader.
C14_NoPartialOpen ==
    Opened =>
        /\ openRes.fault # "none" => OpenFailedWith("Io")
        /\ (CutBeforeStore /\ openRes.expected = "None") =>
              OpenFailedWith("Io")

\* Two results are the same for the caller: the same bytes, the same
\* absence, or the same error.
SameOutcome(a, b) ==
    a.tag = b.tag /\ a.err = b.err /\ a.id = b.id /\ a.blob = b.blob

\* C15: a call on an open reader (get_blob, build_code_section, op_ids,
\* verify_signature, whatever it returns) leaves the header, the manifest,
\* blob_store_offset and blob_store_len as they were, and a get_blob(id)
\* returns what it returns right after open, the cursor being at the blob
\* store: where earlier calls left the cursor makes no difference.
C15_ReaderImmutable ==
    [][pc = "open" =>
          /\ reader'.header = reader.header
          /\ reader'.manifest = reader.manifest
          /\ reader'.blob_store_offset = reader.blob_store_offset
          /\ reader'.blob_store_len = reader.blob_store_len
          /\ last'.op = "get_blob" =>
                SameOutcome(last'.res,
                            get_blob(reader, sink, reader.blob_store_offset,
                                     last'.ids[1]))]_vars

\* C15's case: get_blob has returned bytes with the cursor left elsewhere
\* than at the blob store by the calls before it, verify_signature among them.
C15_Witness ==
    /\ pc = "open" /\ reader.signature_verified
    /\ last.op = "get_blob" /\ last.res.tag = "Some" /\ last.res.blob # <<>>
    /\ last.res.from # reader.blob_store_offset

\* C16: signature_verified is false when open returns; it changes only in a
\* verify_signature call that returns Ok(true), which sets it; and get_blob
\* and build_code_section return what they would return with the flag the
\* other way.
C16_VerifiedFlag ==
    [][/\ (pc # "open" /\ pc' = "open") => ~reader'.signature_verified
       /\ pc = "open" =>
             /\ reader'.signature_verified # reader.signature_verified =>
                   /\ last'.op = "verify_signature"
                   /\ last'.res.tag = "Bool" /\ last'.res.flag
                   /\ reader'.signature_verified
             /\ (last'.op = "verify_signature" /\ last'.res.tag = "Bool"
                   /\ last'.res.flag) => reader'.signature_verified
             /\ last'.op = "get_blob" =>
                   SameOutcome(last'.res,
                               get_blob([reader EXCEPT
                                           !.signature_verified = ~@],
                                        sink, cursor, last'.ids[1]))
             /\ last'.op = "build_code_section" =>
                   SameOutcome(last'.res,
                               build_code_section(
                                   [reader EXCEPT !.signature_verified = ~@],
                                   sink, cursor, last'.ids, last'.policy))]_vars

\* C16's case: the flag is set and build_code_section has returned bytes.
C16_Witness ==
    /\ pc = "open" /\ reader.signature_verified
    /\ last.op = "build_code_section" /\ last.res.tag = "Some"
    /\ last.res.blob # <<>>

\* The manifest as it stands in the file of an open reader: the count at
\* header_end, then the entries; field n (0: op_id, 1: offset, 2: size) of
\* entry i; the index of the last entry with op_id id.
FileCount ==
    FromLE32(SubSeq(sink, reader.header.header_end + 1,
                    reader.header.header_end + 4))
FileField(i, n) ==
    LET q == reader.header.header_end + 4 + (i - 1) * ENTRY_SIZE + 4 * n
    IN  FromLE32(SubSeq(sink, q + 1, q + 4))
FileIds == {FileField(i, 0) : i \in 1..FileCount}
LastEntryOf(id) ==
    CHOOSE i \in 1..FileCount :
        /\ FileField(i, 0) = id
        /\ \A j \in (i + 1)..FileCount : FileField(j, 0) # id

\* The unsigned files of the model in whose manifest an op_id occurs twice.
DuplicateFiles ==
    {CraftBytes(BaseHeader, m, CraftStore) :
        m \in {x \in CraftManifests :
                  \E i, j \in 1..Len(x) : i < j /\ x[i][1] = x[j][1]}}

\* C17: a file in whose manifest an op_id occurs in several entries is
\* opened; the manifest of the reader has for each op_id the offset and
\* size of the last entry of the file with that op_id; get_blob(op_id)
\* returns the bytes that entry locates (the error when it extends past the
\* blob store); op_ids() lists every op_id of the file once, in ascending
\* order.
C17_LastEntryWins ==
    /\ (pc = "openfail" /\ openRes.expected = "None") =>
          sink \notin DuplicateFiles
    /\ pc = "open" =>
          /\ DOMAIN reader.manifest = FileIds
          /\ \A id \in FileIds :
                /\ reader.manifest[id].offset = FileField(LastEntryOf(id), 1)
                /\ reader.manifest[id].size = FileField(LastEntryOf(id), 2)
          /\ (last.op = "get_blob" /\ last.ids[1] \in FileIds) =>
                LET k == LastEntryOf(last.ids[1])
                    from == reader.blob_store_offset + FileField(k, 1)
                IN  IF Within(FileField(k, 1), FileField(k, 2),
                              reader.blob_store_len)
                    THEN /\ last.res.tag = "Some"
                         /\ last.res.blob =
                               SubSeq(sink, from + 1, from + FileField(k, 2))
                    ELSE last.res.tag = "Err"
          /\ last.op = "op_ids" =>
                /\ {last.res.blob[i] : i \in 1..Len(last.res.blob)} = FileIds
                /\ \A i \in 1..(Len(last.res.blob) - 1) :
                      last.res.blob[i] < last.res.blob[i + 1]

\* C17's case: the file has two entries with the same op_id at different
\* places, and get_blob has returned the bytes of the second.
C17_Witness ==
    /\ pc = "open" /\ FileCount = 2
    /\ FileField(1, 0) = FileField(2, 0) /\ FileField(1, 1) # FileField(2, 1)
    /\ last.op = "get_blob" /\ last.ids[1] = FileField(2, 0)
    /\ last.res.tag = "Some" /\ last.res.blob # <<>>

\* The manifest has an entry for id that extends past the blob store; the
\* index of the first requested op_id with such an entry.
Corrupt(id) == Present(id) /\ ~Readable(id)
FirstCorrupt ==
    CHOOSE k \in 1..Len(last.ids) :
        /\ Corrupt(last.ids[k])
        /\ \A j \in 1..(k - 1) : ~Corrupt(last.ids[j])

\* C18: build_code_section with a requested op_id whose entry extends past
\* the blob store fails with the error of get_blob ("manifest entry extends
\* past blob store") under Skip as under Fail (under Fail when no absent
\* op_id comes before it in the input), and returns none of the bytes of the
\* blobs before it.
C18_SkipKeepsErrors ==
    (Built /\ (\E k \in 1..Len(last.ids) : Corrupt(last.ids[k]))
       /\ (last.policy = "Fail" =>
              \A j \in 1..(FirstCorrupt - 1) : Present(last.ids[j]))) =>
        /\ last.res.tag = "Err" /\ last.res.err = "InvalidData"
        /\ last.res.blob = <<>>

\* C18's case: under Skip, an op_id with a blob, then one whose entry
\* extends past the blob store.
C18_Witness ==
    /\ Built /\ last.policy = "Skip" /\ Len(last.ids) = 2
    /\ Present(last.ids[1]) /\ Readable(last.ids[1])
    /\ BlobOf(last.ids[1]) # <<>> /\ Corrupt(last.ids[2])
    /\ last.res.tag = "Err"

====
